---- MODULE Spec2Model ----
(***************************************************************************)
(* Variable exporter (Figma plugin): the export pipeline of src/src/main.ts *)
(* and the download side of src/src/ui.tsx.                                 *)
(*                                                                          *)
(* Strings are sequences of one-character strings, so that split, replace,  *)
(* toLowerCase, toString and template literals are computed character by    *)
(* character.  A JavaScript object is a sequence of <<key, value>> pairs in *)
(* insertion order; a value is a string [t |-> "s", s |-> chars] or an      *)
(* object [t |-> "o", o |-> pairs].                                         *)
(***************************************************************************)
EXTENDS Integers, Sequences, FiniteSets, TLC

VARIABLES
    docCollections,   \* figma.variables.getLocalVariableCollectionsAsync() would return this
    docVariables,     \* figma.variables.getLocalVariablesAsync() would return this
    uiSelected,       \* ui.tsx: selectedCollections state of Plugin
    requests,         \* in-flight and finished calls of exportCollections
    emitted,          \* events main has emitted to the UI, in order
    uiDispatched,     \* how many of them the UI has dispatched
    downloads,        \* downloads the UI has triggered
    conv,             \* one call of convertVariableToDTCGToken: its arguments and result
    tree              \* one build of the combined tokens: its arguments and result

vars == <<docCollections, docVariables, uiSelected, requests, emitted,
          uiDispatched, downloads, conv, tree>>

-----------------------------------------------------------------------------
(* Characters and string primitives                                         *)

UpperChars == <<"A","B","C","D","E","F","G","H","I","J","K","L","M",
                "N","O","P","Q","R","S","T","U","V","W","X","Y","Z">>
LowerChars == <<"a","b","c","d","e","f","g","h","i","j","k","l","m",
                "n","o","p","q","r","s","t","u","v","w","x","y","z">>
DigitChars == <<"0","1","2","3","4","5","6","7","8","9",
                "a","b","c","d","e","f">>

SeqRange(s) == {s[i] : i \in 1..Len(s)}

\* Only({e : x \in {a}}) is e with x bound to the value of a, computed once
Only(S) == CHOOSE x \in S : TRUE

IsUpper(c) == c \in SeqRange(UpperChars)
IsLower(c) == c \in SeqRange(LowerChars)
IsDigit(c) == c \in {DigitChars[i] : i \in 1..10}
IsAlnum(c) == IsUpper(c) \/ IsLower(c) \/ IsDigit(c)

LowerChar(c) ==
    IF IsUpper(c)
    THEN LowerChars[CHOOSE i \in 1..Len(UpperChars) : UpperChars[i] = c]
    ELSE c

\* String.prototype.toLowerCase
ToLowerCase(s) == [i \in 1..Len(s) |-> LowerChar(s[i])]

\* s.replace(/\//g, '.')
ReplaceSlashByDot(s) == [i \in 1..Len(s) |-> IF s[i] = "/" THEN "." ELSE s[i]]

\* s.replace(/[^a-zA-Z0-9]/g, '_')
ReplaceNonAlnum(s) == [i \in 1..Len(s) |-> IF IsAlnum(s[i]) THEN s[i] ELSE "_"]

\* String.prototype.split with a one-character separator: "a..b" gives
\* <<"a", "", "b">>, and the empty string gives <<"">>.
RECURSIVE SplitOn(_, _)
SplitOn(s0, sep) ==
    Only({IF \A i \in 1..Len(s) : s[i] # sep
          THEN <<s>>
          ELSE Only({<<SubSeq(s, 1, k - 1)>>
                         \o SplitOn(SubSeq(s, k + 1, Len(s)), sep)
                     : k \in {CHOOSE i \in 1..Len(s) :
                                  s[i] = sep /\ \A j \in 1..(i - 1) : s[j] # sep}})
          : s \in {s0}})

RECURSIVE JoinWith(_, _)
JoinWith(parts, sep) ==
    IF Len(parts) = 0 THEN <<>>
    ELSE IF Len(parts) = 1 THEN parts[1]
    ELSE parts[1] \o sep \o JoinWith(Tail(parts), sep)

\* Number.prototype.toString(radix) of a non-negative integer
RECURSIVE NatToString(_, _)
NatToString(n, radix) ==
    IF n < radix THEN <<DigitChars[n + 1]>>
    ELSE Append(NatToString(n \div radix, radix), DigitChars[(n % radix) + 1])

\* String.prototype.padStart(2, '0')
PadStart2(s) == IF Len(s) < 2 THEN <<"0">> \o s ELSE s

\* Math.floor in place of Math.round
Round255_Floor(x) == (255 * x[1]) \div x[2]

\* Math.round(x * 255) for the rational x = <<num, den>> (round half up)
Round255(x) == (2 * 255 * x[1] + x[2]) \div (2 * x[2])

\* (a / 255).toFixed(2) for an integer 0 <= a <= 255
ToFixed2Of255(a) ==
    LET q == (200 * a + 255) \div (2 * 255)
    IN  NatToString(q \div 100, 10) \o <<".">>
            \o PadStart2(NatToString(q % 100, 10))

-----------------------------------------------------------------------------
(* JavaScript values and objects                                            *)

Str(s) == [t |-> "s", s |-> s, o |-> <<>>, r |-> <<>>]
Obj(pairs) == [t |-> "o", s |-> <<>>, o |-> pairs, r |-> <<>>]
EmptyObj == Obj(<<>>)

IsObj(v) == v.t = "o"
IsStr(v) == v.t = "s"

\* key in obj
HasKey(obj0, k0) ==
    Only({\E i \in 1..Len(obj.o) : obj.o[i][1] = k : obj \in {obj0}, k \in {k0}})
KeyIndex(obj, k) == CHOOSE i \in 1..Len(obj.o) : obj.o[i][1] = k
\* obj[k], read only where the key is present
GetKey(obj0, k0) ==
    Only({obj.o[KeyIndex(obj, k)][2] : obj \in {obj0}, k \in {k0}})
\* obj[k] = v: an existing key keeps its place, a new key goes last
SetKey(obj0, k0, v0) ==
    Only({IF HasKey(obj, k)
          THEN Obj([obj.o EXCEPT ![KeyIndex(obj, k)] = <<k, v>>])
          ELSE Obj(Append(obj.o, <<k, v>>))
          : obj \in {obj0}, k \in {k0}, v \in {v0}})
\* delete obj[k]
DeleteKey(obj0, k0) ==
    Only({IF HasKey(obj, k)
          THEN Obj(SubSeq(obj.o, 1, KeyIndex(obj, k) - 1)
                   \o SubSeq(obj.o, KeyIndex(obj, k) + 1, Len(obj.o)))
          ELSE obj
          : obj \in {obj0}, k \in {k0}})
\* Object.keys(obj), Object.values(obj)
ObjectKeys(obj) == [i \in 1..Len(obj.o) |-> obj.o[i][1]]
ObjectValues(obj) == [i \in 1..Len(obj.o) |-> obj.o[i][2]]

-----------------------------------------------------------------------------
(* String literals of the source                                            *)

K_type == <<"$","t","y","p","e">>
K_value == <<"$","v","a","l","u","e">>
K_modes == <<"$","m","o","d","e","s">>
K_description == <<"$","d","e","s","c","r","i","p","t","i","o","n">>
K_fallback == <<"$","f","a","l","l","b","a","c","k">>
K_schema == <<"$","s","c","h","e","m","a">>
K_name == <<"$","n","a","m","e">>
K_tokens == <<"$","t","o","k","e","n","s">>
S_colors == <<"c","o","l","o","r","s">>
S_color == <<"c","o","l","o","r">>
S_dimension == <<"d","i","m","e","n","s","i","o","n">>
S_string == <<"s","t","r","i","n","g">>
S_boolean == <<"b","o","o","l","e","a","n">>
S_light == <<"l","i","g","h","t">>
S_dark == <<"d","a","r","k">>
S_true == <<"t","r","u","e">>
S_false == <<"f","a","l","s","e">>
S_rgbaOpen == <<"r","g","b","a","(">>
S_commaSpace == <<",", " ">>
S_filename == <<"f","i","g","m","a","_","v","a","r","i","a","b","l","e","_",
                "c","o","l","l","e","c","t","i","o","n","s",".","j","s","o","n">>

-----------------------------------------------------------------------------
(* Value conversion: src/src/main.ts 294-362                                *)

\* A raw VariableValue is one of
\*   [k |-> "alias", id |-> chars]          {type: 'VARIABLE_ALIAS', id}
\*   [k |-> "rgba", r, g, b, a]             RGBA, channels as <<num, den>>
\*   [k |-> "rgb", r, g, b]                 RGB, no 'a' key
\*   [k |-> "num", n |-> Nat]               a number
\*   [k |-> "str", s |-> chars]             a string
\*   [k |-> "bool", b |-> BOOLEAN]          a boolean

getDTCGTypeFromVariableType(variableType) ==
    CASE variableType = "COLOR" -> S_color
      [] variableType = "FLOAT" -> S_dimension
      [] variableType = "STRING" -> S_string
      [] variableType = "BOOLEAN" -> S_boolean
      [] OTHER -> S_string

\* allVariables.find((v) => v.id === id): its index, 0 when there is none
FindVariable(allVariables, id) ==
    IF \E i \in 1..Len(allVariables) : allVariables[i].id = id
    THEN CHOOSE i \in 1..Len(allVariables) :
             allVariables[i].id = id
             /\ \A j \in 1..(i - 1) : allVariables[j].id # id
    ELSE 0

\* value?.toString() || '' for a number, a string, a boolean
PrimitiveToString(value) ==
    CASE value.k = "num" -> NatToString(value.n, 10)
      [] value.k = "str" -> value.s
      [] value.k = "bool" -> IF value.b THEN S_true ELSE S_false

ColorToString(value) ==
    LET r == Round255(value.r)
        g == Round255(value.g)
        b == Round255(value.b)
        a == IF value.k = "rgba" THEN Round255(value.a) ELSE 255
    IN  IF a = 255
        THEN <<"#">> \o PadStart2(NatToString(r, 16))
                     \o PadStart2(NatToString(g, 16))
                     \o PadStart2(NatToString(b, 16))
        ELSE S_rgbaOpen \o NatToString(r, 10) \o S_commaSpace
                 \o NatToString(g, 10) \o S_commaSpace
                 \o NatToString(b, 10) \o S_commaSpace
                 \o ToFixed2Of255(a) \o <<")">>

\* a dangling alias converted without its id
getVariableValueForMode_DropId(variable, value0, allVariables) ==
    IF value0.k = "alias"
    THEN IF FindVariable(allVariables, value0.id) # 0
         THEN <<"{">> \o ReplaceSlashByDot(
                             allVariables[FindVariable(allVariables, value0.id)].name)
                      \o <<"}">>
         ELSE <<"{", "}">>
    ELSE IF variable.resolvedType = "COLOR" /\ value0.k \in {"rgba", "rgb"}
    THEN ColorToString(value0)
    ELSE PrimitiveToString(value0)

getVariableValueForMode(variable, value0, allVariables) ==
    Only({IF value.k = "alias"
          THEN Only({IF i # 0
                     THEN <<"{">> \o ReplaceSlashByDot(allVariables[i].name)
                                  \o <<"}">>
                     ELSE <<"{">> \o value.id \o <<"}">>
                     : i \in {FindVariable(allVariables, value.id)}})
          ELSE IF variable.resolvedType = "COLOR" /\ value.k \in {"rgba", "rgb"}
          THEN ColorToString(value)
          ELSE PrimitiveToString(value)
          : value \in {value0}})

getFallbackMode(modeName, allModes) ==
    IF modeName = S_dark /\ \E i \in 1..Len(allModes) : allModes[i].name = S_light
    THEN LET i == CHOOSE i \in 1..Len(allModes) :
                      allModes[i].name = S_light
                      /\ \A j \in 1..(i - 1) : allModes[j].name # S_light
         IN  <<allModes[i]>>
    ELSE <<>>

HasValue(variable, modeId) == modeId \in DOMAIN variable.valuesByMode

\* The loop of lines 228-254 over collection.modes[1..n]: the modeValues object
RECURSIVE ModeValuesUpTo(_, _, _, _)
ModeValuesUpTo(variable, collection, allVariables, n) ==
    IF n = 0 THEN EmptyObj
    ELSE Only({
             IF HasValue(variable, mode.modeId)
             THEN SetKey(prev, mode.name,
                         Str(getVariableValueForMode(
                                 variable, variable.valuesByMode[mode.modeId],
                                 allVariables)))
             ELSE IF Len(fb) = 1 /\ HasValue(variable, fb[1].modeId)
             THEN SetKey(prev, mode.name,
                         Str(getVariableValueForMode(
                                 variable, variable.valuesByMode[fb[1].modeId],
                                 allVariables)))
             ELSE prev
             : prev \in {ModeValuesUpTo(variable, collection, allVariables, n - 1)},
               mode \in {collection.modes[n]},
               fb \in {getFallbackMode(collection.modes[n].name, collection.modes)}})

ModeValues(variable0, collection0, allVariables0) ==
    Only({ModeValuesUpTo(variable, collection, allVariables, Len(collection.modes))
          : variable \in {variable0}, collection \in {collection0},
            allVariables \in {allVariables0}})

\* lines 256-261 without the comparison of the values
HasMultipleModes_AnyValues(collection, modeValues) ==
    /\ Len(collection.modes) > 1
    /\ Len(modeValues.o) > 0

\* lines 256-261: new Set(Object.values(modeValues)).size > 1
HasMultipleModes(collection, modeValues) ==
    /\ Len(collection.modes) > 1
    /\ Len(modeValues.o) > 0
    /\ Cardinality({modeValues.o[i][2] : i \in 1..Len(modeValues.o)}) > 1

\* lines 266-284 with an empty string for a variable without any value
SingleValue_Blank(variable, collection, allVariables) ==
    IF \A i \in 1..Len(collection.modes) :
           ~HasValue(variable, collection.modes[i].modeId)
    THEN << <<>> >>
    ELSE <<getVariableValueForMode(
               variable,
               variable.valuesByMode[
                   collection.modes[
                       CHOOSE i \in 1..Len(collection.modes) :
                           /\ HasValue(variable, collection.modes[i].modeId)
                           /\ \A j \in 1..(i - 1) :
                                  ~HasValue(variable,
                                            collection.modes[j].modeId)].modeId],
               allVariables)>>

\* lines 266-284: the first mode's value, else the first mode that has one
SingleValue(variable, collection, allVariables) ==
    Only({IF defined = {} THEN <<>>
          ELSE <<getVariableValueForMode(
                     variable,
                     variable.valuesByMode[
                         collection.modes[
                             CHOOSE i \in defined : \A j \in defined : i <= j].modeId],
                     allVariables)>>
          : defined \in {{i \in 1..Len(collection.modes) :
                              HasValue(variable, collection.modes[i].modeId)}}})

\* lines 219-221, 263-285: the token before its description
TokenTypeAndValue(variable, collection, allVariables) ==
    Only({IF HasMultipleModes(collection, modeValues)
          THEN SetKey(t0, K_modes, modeValues)
          ELSE IF Len(single) = 1
          THEN SetKey(t0, K_value, Str(single[1]))
          ELSE t0
          : modeValues \in {ModeValues(variable, collection, allVariables)},
            t0 \in {Obj(<< <<K_type,
                              Str(getDTCGTypeFromVariableType(variable.resolvedType))>> >>)},
            single \in {SingleValue(variable, collection, allVariables)}})

\* lines 214-292
convertVariableToDTCGToken(variable0, collection0, allVariables0) ==
    Only({IF variable.description # <<>>
          THEN SetKey(TokenTypeAndValue(variable, collection, allVariables),
                      K_description, Str(variable.description))
          ELSE TokenTypeAndValue(variable, collection, allVariables)
          : variable \in {variable0}, collection \in {collection0},
            allVariables \in {allVariables0}})

-----------------------------------------------------------------------------
(* Tree building: src/src/main.ts 138-212, 477-497                          *)
(* Variable names whose segments begin with "$" (which would address the    *)
(* $type/$value strings of a token as if they were groups) are outside the  *)
(* model: every walk below meets objects only.                              *)

S_schemaUrl == <<"h","t","t","p","s",":","/","/","s","p","e","c","s",".","v","i","s","u","a","l","-","t","o","k","e","n","s",".","c","o","m","/","f","o","r","m","a","t","/","1",".","0",".","0">>
S_combinedName == <<"F","i","g","m","a"," ","V","a","r","i","a","b","l","e"," ","C","o","l","l","e","c","t","i","o","n","s">>
S_combinedDescription == <<"C","o","m","b","i","n","e","d"," ","d","e","s","i","g","n"," ","t","o","k","e","n","s"," ","f","r","o","m"," ","c","o","l","l","e","c","t","i","o","n","s",":"," ">>
S_collectionDescription == <<"D","e","s","i","g","n"," ","t","o","k","e","n","s"," ","e","x","p","o","r","t","e","d"," ","f","r","o","m"," ","F","i","g","m","a"," ","c","o","l","l","e","c","t","i","o","n",":"," ">>

\* lines 171-193: walk path[1..n-1] from currentGroup, then set the token
RECURSIVE InsertToken(_, _, _)
InsertToken(currentGroup0, path0, token0) ==
    Only({IF Len(path) = 1
          THEN SetKey(currentGroup, path[1], token)
          ELSE Only({IF IsObj(next)
                     THEN SetKey(currentGroup, path[1],
                                 InsertToken(next, Tail(path), token))
                     ELSE currentGroup
                     : next \in {IF \/ ~HasKey(currentGroup, path[1])
                                    \/ /\ IsObj(GetKey(currentGroup, path[1]))
                                       /\ ~HasKey(GetKey(currentGroup, path[1]),
                                                  K_type)
                                 THEN EmptyObj
                                 ELSE GetKey(currentGroup, path[1])}})
          : currentGroup \in {currentGroup0}, path \in {path0}, token \in {token0}})

\* lines 142-144
CollectionVariables(collection, allVariables) ==
    SelectSeq(allVariables, LAMBDA v : v.variableCollectionId = collection.id)

\* lines 169-194 over collectionVariables[1..n]
RECURSIVE BuildTokensUpTo(_, _, _, _)
BuildTokensUpTo(collection, collectionVariables, allVariables, n) ==
    IF n = 0 THEN EmptyObj
    ELSE InsertToken(
             BuildTokensUpTo(collection, collectionVariables, allVariables, n - 1),
             SplitOn(collectionVariables[n].name, "."),
             convertVariableToDTCGToken(collectionVariables[n], collection,
                                        allVariables))

IsColorToken(token) ==
    IsObj(token) /\ HasKey(token, K_type) /\ GetKey(token, K_type) = Str(S_color)

\* lines 477-497
RECURSIVE addTypeToColorGroups(_)
addTypeToColorGroups(tokens0) ==
    Only({Obj([i \in 1..Len(tokens.o) |->
              Only({IF IsObj(value) /\ ~HasKey(value, K_type)
                    THEN <<tokens.o[i][1],
                           addTypeToColorGroups(
                               IF \E j \in 1..Len(value.o) :
                                      IsColorToken(value.o[j][2])
                               THEN SetKey(value, K_type, Str(S_color))
                               ELSE value)>>
                    ELSE tokens.o[i]
                    : value \in {tokens.o[i][2]}})])
          : tokens \in {tokens0}})

\* lines 148-166: the collection's $modes object
CollectionModes(collection) ==
    LET names == [i \in 1..Len(collection.modes) |-> collection.modes[i].name]
        hasLight == S_light \in SeqRange(names)
    IN  Obj([i \in 1..Len(names) |->
            <<names[i],
              IF names[i] # S_light /\ hasLight
              THEN Obj(<< <<K_fallback, Str(S_light)>> >>)
              ELSE EmptyObj>>])

\* lines 138-212; the modes of one collection have distinct names
convertCollectionToDTCG(collection0, allVariables0) ==
    Only({Only({IF Len(collection.modes) > 1
                THEN SetKey(result, K_modes, CollectionModes(collection))
                ELSE result
                : result \in {Obj(<<
                      <<K_schema, Str(S_schemaUrl)>>,
                      <<K_name, Str(collection.name)>>,
                      <<K_description,
                        Str(S_collectionDescription \o collection.name)>>,
                      <<K_tokens,
                        addTypeToColorGroups(
                            BuildTokensUpTo(collection, collectionVariables,
                                            allVariables,
                                            Len(collectionVariables)))>> >>)}})
          : collection \in {collection0}, allVariables \in {allVariables0},
            collectionVariables \in {CollectionVariables(collection0, allVariables0)}})

-----------------------------------------------------------------------------
(* groupAllColorsAtRoot: src/src/main.ts 377-475                            *)
(* The function puts the token objects of the tree it reads into the new    *)
(* "other" trees by reference, and writes through them.  A shared object is *)
(* a top-level entry of a collection's tree: Ref(key) stands for it in the  *)
(* new tree, and the collection's tree itself is the store the reference    *)
(* points into.                                                             *)

Ref(key) == [t |-> "r", s |-> <<>>, o |-> <<>>, r |-> key]
IsRef(v) == v.t = "r"

StartsWith(s, prefix) ==
    Len(s) >= Len(prefix) /\ SubSeq(s, 1, Len(prefix)) = prefix

\* lines 377-382, on token.$value (absent: undefined)
hasColorValue(token, key) ==
    /\ HasKey(token, key)
    /\ IsStr(GetKey(token, key))
    /\ \/ StartsWith(GetKey(token, key).s, <<"#">>)
       \/ StartsWith(GetKey(token, key).s, <<"r","g","b","a">>)

\* lines 384-387, on token.$modes (absent: undefined)
hasColorModes(token) ==
    /\ HasKey(token, K_modes)
    /\ IsObj(GetKey(token, K_modes))
    /\ \E i \in 1..Len(GetKey(token, K_modes).o) :
           hasColorValue(GetKey(token, K_modes), GetKey(token, K_modes).o[i][1])

\* lines 401-406
IsLiteralColorToken(tokenValue) ==
    /\ IsColorToken(tokenValue)
    /\ hasColorValue(tokenValue, K_value) \/ hasColorModes(tokenValue)

\* lines 412-443: walk nameParts[1..n-1], creating a group where there is
\* none, then set the last name.  The result is the walked object and the
\* store, both as written.
RECURSIVE InsertByName(_, _, _, _)
InsertByName(currentGroup0, nameParts0, value0, store0) ==
    Only({
        IF Len(nameParts) = 1
        THEN [node |-> SetKey(currentGroup, nameParts[1], value), store |-> store]
        ELSE IF ~HasKey(currentGroup, nameParts[1])
        THEN Only({[node |-> SetKey(currentGroup, nameParts[1], r.node),
                    store |-> r.store]
                   : r \in {InsertByName(EmptyObj, Tail(nameParts), value, store)}})
        ELSE Only({
                 IF IsRef(child)
                 THEN Only({[node |-> currentGroup,
                             store |-> SetKey(r.store, child.r, r.node)]
                            : r \in {InsertByName(GetKey(store, child.r),
                                                  Tail(nameParts), value, store)}})
                 ELSE IF IsObj(child)
                 THEN Only({[node |-> SetKey(currentGroup, nameParts[1], r.node),
                             store |-> r.store]
                            : r \in {InsertByName(child, Tail(nameParts), value,
                                                  store)}})
                 ELSE [node |-> currentGroup, store |-> store]
                 : child \in {GetKey(currentGroup, nameParts[1])}})
        : currentGroup \in {currentGroup0}, nameParts \in {nameParts0},
          value \in {value0}, store \in {store0}})

\* What a tree serialises to: each reference replaced by the object it
\* points to, as last written.
RECURSIVE Deref(_, _)
Deref(value0, store) ==
    Only({IF IsRef(value) THEN Deref(GetKey(store, value.r), store)
          ELSE IF IsObj(value)
          THEN Obj([i \in 1..Len(value.o) |->
                       <<value.o[i][1], Deref(value.o[i][2], store)>>])
          ELSE value
          : value \in {value0}})

\* lines 400-445 over the entries [1..n] of one collection's tree:
\* collectionColors, collectionOtherTokens, and the tree as written through
RECURSIVE GroupCollectionUpTo(_, _)
GroupCollectionUpTo(collectionTokens, n) ==
    IF n = 0
    THEN [colors |-> EmptyObj, other |-> EmptyObj, store |-> collectionTokens]
    ELSE Only({
             IF IsLiteralColorToken(GetKey(prev.store, tokenKey))
             THEN [prev EXCEPT !.colors =
                      InsertByName(prev.colors, nameParts,
                                   DeleteKey(GetKey(prev.store, tokenKey), K_type),
                                   <<>>).node]
             ELSE Only({[prev EXCEPT !.other = r.node, !.store = r.store]
                        : r \in {InsertByName(prev.other, nameParts,
                                              Ref(tokenKey), prev.store)}})
             : prev \in {GroupCollectionUpTo(collectionTokens, n - 1)},
               tokenKey \in {collectionTokens.o[n][1]},
               nameParts \in {SplitOn(collectionTokens.o[n][1], "/")}})

GroupCollection(collectionTokens0) ==
    Only({[colors |-> g.colors,
           other |-> Deref(g.other, g.store),
           store |-> Deref(g.store, g.store)]
          : g \in {Only({GroupCollectionUpTo(collectionTokens,
                                             Len(collectionTokens.o))
                         : collectionTokens \in {collectionTokens0}})}})

\* lines 394-459 over the entries [1..n] of tokens: allColorTokens,
\* otherTokens, and tokens as written through
RECURSIVE GroupAllUpTo(_, _)
GroupAllUpTo(tokens, n) ==
    IF n = 0
    THEN [allColorTokens |-> EmptyObj, otherTokens |-> EmptyObj,
          written |-> tokens]
    ELSE Only({
             IF IsObj(collectionValue) /\ ~HasKey(collectionValue, K_type)
             THEN Only({
                      [allColorTokens |->
                           IF Len(g.colors.o) > 0
                           THEN SetKey(prev.allColorTokens, collectionKey, g.colors)
                           ELSE prev.allColorTokens,
                       otherTokens |->
                           IF Len(g.other.o) > 0
                           THEN SetKey(prev.otherTokens, collectionKey, g.other)
                           ELSE prev.otherTokens,
                       written |-> SetKey(prev.written, collectionKey, g.store)]
                      : g \in {GroupCollection(collectionValue)}})
             ELSE [prev EXCEPT !.otherTokens =
                       SetKey(prev.otherTokens, collectionKey, collectionValue)]
             : prev \in {GroupAllUpTo(tokens, n - 1)},
               collectionKey \in {tokens.o[n][1]},
               collectionValue \in {tokens.o[n][2]}})

\* Object.assign(target, source)
RECURSIVE ObjectAssignUpTo(_, _, _)
ObjectAssignUpTo(target, source, n) ==
    IF n = 0 THEN target
    ELSE SetKey(ObjectAssignUpTo(target, source, n - 1),
                source.o[n][1], source.o[n][2])

\* lines 389-475: tokens after the call
groupAllColorsAtRoot(tokens0) ==
    Only({IF Len(g.allColorTokens.o) > 0
          THEN ObjectAssignUpTo(
                   Obj(<< <<S_colors,
                            ObjectAssignUpTo(Obj(<< <<K_type, Str(S_color)>> >>),
                                             g.allColorTokens,
                                             Len(g.allColorTokens.o))>> >>),
                   g.otherTokens, Len(g.otherTokens.o))
          ELSE g.written
          : g \in {Only({GroupAllUpTo(tokens, Len(tokens.o))
                         : tokens \in {tokens0}})}})

-----------------------------------------------------------------------------
(* exportCollections: src/src/main.ts 38-136                                *)

\* lines 71-73
CollectionKey(name) == ToLowerCase(ReplaceNonAlnum(name))

\* lines 58-77 over selectedCollectionsData[1..n]: combinedTokens
RECURSIVE CombinedTokensUpTo(_, _, _)
CombinedTokensUpTo(selectedCollectionsData, allVariables, n) ==
    IF n = 0 THEN EmptyObj
    ELSE SetKey(CombinedTokensUpTo(selectedCollectionsData, allVariables, n - 1),
                CollectionKey(selectedCollectionsData[n].name),
                GetKey(convertCollectionToDTCG(selectedCollectionsData[n],
                                               allVariables), K_tokens))

\* lines 68, 112: collectionNames.join(', ')
CollectionNames(selectedCollectionsData) ==
    JoinWith([i \in 1..Len(selectedCollectionsData) |->
                  selectedCollectionsData[i].name], S_commaSpace)

\* the mode names of collections [1..n], collection by collection
RECURSIVE AllModeNamesUpTo(_, _)
AllModeNamesUpTo(selectedCollectionsData, n) ==
    IF n = 0 THEN <<>>
    ELSE AllModeNamesUpTo(selectedCollectionsData, n - 1)
         \o [i \in 1..Len(selectedCollectionsData[n].modes) |->
                 selectedCollectionsData[n].modes[i].name]

\* lines 86-93 over names[1..n]: combinedModes before the fallbacks
RECURSIVE CombinedModesUpTo(_, _)
CombinedModesUpTo(names, n) ==
    IF n = 0 THEN EmptyObj
    ELSE Only({IF HasKey(prev, names[n]) THEN prev
               ELSE SetKey(prev, names[n], EmptyObj)
               : prev \in {CombinedModesUpTo(names, n - 1)}})

\* lines 83-107: combinedModes
CombinedModes(selectedCollectionsData) ==
    Only({IF Len(modes.o) > 1 /\ HasKey(modes, S_light)
          THEN Obj([i \in 1..Len(modes.o) |->
                   IF modes.o[i][1] # S_light
                   THEN <<modes.o[i][1], Obj(<< <<K_fallback, Str(S_light)>> >>)>>
                   ELSE modes.o[i]])
          ELSE modes
          : modes \in {Only({CombinedModesUpTo(names, Len(names))
                             : names \in {AllModeNamesUpTo(
                                              selectedCollectionsData,
                                              Len(selectedCollectionsData))}})}})

\* lines 55-119: the combined collection that is serialised
CombinedCollection(selectedCollectionsData0, allVariables0) ==
    Only({IF Len(combinedModes.o) > 1
          THEN SetKey(combined, K_modes, combinedModes)
          ELSE combined
          : combinedModes \in {CombinedModes(selectedCollectionsData0)},
            combined \in {Only({
                Obj(<< <<K_schema, Str(S_schemaUrl)>>,
                       <<K_name, Str(S_combinedName)>>,
                       <<K_description,
                         Str(S_combinedDescription
                             \o CollectionNames(selectedCollectionsData))>>,
                       <<K_tokens,
                         groupAllColorsAtRoot(
                             CombinedTokensUpTo(selectedCollectionsData,
                                                allVariables,
                                                Len(selectedCollectionsData)))>> >>)
                : selectedCollectionsData \in {selectedCollectionsData0},
                  allVariables \in {allVariables0}})}})

\* lines 121-132: the payload of emit('DOWNLOAD_FILES', ...).  The content
\* is the value JSON.stringify serialises: objects keep their keys and the
\* order of their keys.
DownloadFilesPayload(selectedCollectionsData, allVariables) ==
    << [filename |-> S_filename,
        content |-> CombinedCollection(selectedCollectionsData, allVariables)] >>

-----------------------------------------------------------------------------
(* The documents the model runs on                                          *)

MaxRequests == 2

Mode(modeId, name) == [modeId |-> modeId, name |-> name]

WebSemantics ==
    [id |-> "c1", name |-> <<"W","e","b"," ","S","e","m","a","n","t","i","c","s">>,
     modes |-> <<Mode("1:0", S_light), Mode("1:1", S_dark)>>]
Spacing ==
    [id |-> "c2", name |-> <<"S","p","a","c","i","n","g">>,
     modes |-> <<Mode("2:0", <<"M","o","d","e"," ","1">>)>>]
\* a light mode beside a mode that is not named dark; a dark mode without a
\* light one
Contrast ==
    [id |-> "c6", name |-> <<"C","o","n","t","r","a","s","t">>,
     modes |-> <<Mode("6:0", S_light), Mode("6:1", <<"c","o","n","t","r","a","s","t">>)>>]
Dusk ==
    [id |-> "c7", name |-> <<"D","u","s","k">>,
     modes |-> <<Mode("7:0", S_dark), Mode("7:1", <<"d","i","m">>)>>]
NightFirst ==
    [id |-> "c3", name |-> <<"N","i","g","h","t"," ","F","i","r","s","t">>,
     modes |-> <<Mode("3:0", S_dark), Mode("3:1", S_light)>>]

Variable(id, name, collectionId, resolvedType, valuesByMode, description, scopes) ==
    [id |-> id, name |-> name, variableCollectionId |-> collectionId,
     resolvedType |-> resolvedType, valuesByMode |-> valuesByMode,
     description |-> description, scopes |-> scopes]

Alias(id) == [k |-> "alias", id |-> id]
RGBA(r, g, b, a) == [k |-> "rgba", r |-> r, g |-> g, b |-> b, a |-> a]
RGB(r, g, b) == [k |-> "rgb", r |-> r, g |-> g, b |-> b]
Num(n) == [k |-> "num", n |-> n]
Text(s) == [k |-> "str", s |-> s]
Bool(b) == [k |-> "bool", b |-> b]

Id_white == <<"V","a","r","i","a","b","l","e","I","D",":","1",":","2">>
Id_brand == <<"V","a","r","i","a","b","l","e","I","D",":","1",":","3">>
Id_missing == <<"V","a","r","i","a","b","l","e","I","D",":","9",":","9">>

One == <<1, 1>>
Zero == <<0, 1>>

\* alias targets: one name already in lower case, one with capitals and a space
TargetWhite ==
    Variable(Id_white, <<"c","o","l","o","r","/","b","r","a","n","d","/","w","h","i","t","e">>, "c1", "COLOR",
             ("1:0" :> RGBA(One, One, One, One)), <<>>, {})
TargetBrand ==
    Variable(Id_brand, <<"C","o","l","o","r","/","B","r","a","n","d"," "," ","W","h","i","t","e">>, "c1", "COLOR",
             ("1:0" :> RGBA(One, One, One, One)), <<>>, {})

\* the variables of the documents an export runs on
Surface ==
    Variable(<<"V","a","r","i","a","b","l","e","I","D",":","1",":","1">>, <<"c","o","l","o","r","/","b","g","/","s","u","r","f","a","c","e">>, "c1", "COLOR",
             ("1:0" :> RGBA(One, One, One, One)) @@ ("1:1" :> RGBA(Zero, Zero, Zero, One)),
             <<>>, {"ALL_FILLS"})
Link ==
    Variable(<<"V","a","r","i","a","b","l","e","I","D",":","1",":","4">>, <<"c","o","l","o","r","/","l","i","n","k">>, "c1", "COLOR",
             ("1:0" :> Alias(Id_missing)), <<>>, {"ALL_FILLS"})
SpaceSm ==
    Variable(<<"V","a","r","i","a","b","l","e","I","D",":","2",":","1">>, <<"s","p","a","c","e","/","s","m">>, "c2", "FLOAT",
             ("2:0" :> Num(8)), <<>>, {})
RadiusLg ==
    Variable(<<"V","a","r","i","a","b","l","e","I","D",":","2",":","2">>, <<"r","a","d","i","u","s",".","l","g">>, "c2", "FLOAT",
             ("2:0" :> Num(16)), <<"L","a","r","g","e"," ","r","a","d","i","u","s">>, {"CORNER_RADIUS"})

DocumentVariables == <<Surface, Link, SpaceSm, RadiusLg>>

\* the subsequences of a sequence
RECURSIVE SubSequences(_)
SubSequences(s) ==
    IF Len(s) = 0 THEN {<<>>}
    ELSE LET rest == SubSequences(Tail(s))
         IN  rest \cup {<<Head(s)>> \o r : r \in rest}

-----------------------------------------------------------------------------
(* The plugin: main thread (src/src/main.ts 13-136) and UI (src/src/ui.tsx) *)

\* main.ts 14, 21: the collections handed to showUI when the plugin starts
UiCollections == <<WebSemantics, Spacing>>

\* ui.tsx 84: the events the UI has a handler for
UiHandlers == {"DOWNLOAD_ZIP"}

ConvIdle ==
    [called |-> FALSE, variable |-> SpaceSm, collection |-> Spacing,
     allVariables |-> <<>>, modeValues |-> EmptyObj, token |-> EmptyObj]

\* main.ts 55-80 has not run
TreeIdle ==
    [called |-> FALSE, collections |-> <<>>, allVariables |-> <<>>,
     trees |-> <<>>, combined |-> EmptyObj]

Init ==
    /\ docCollections = UiCollections
    /\ docVariables \in SubSequences(DocumentVariables)
    /\ uiSelected = {UiCollections[i].id : i \in 1..Len(UiCollections)}
    /\ requests = <<>>
    /\ emitted = <<>>
    /\ uiDispatched = 0
    /\ downloads = <<>>
    /\ conv = ConvIdle
    /\ tree = TreeIdle

\* ui.tsx 30-40
HandleCollectionToggle(collectionId) ==
    /\ uiSelected' = IF collectionId \in uiSelected
                     THEN uiSelected \ {collectionId}
                     ELSE uiSelected \cup {collectionId}
    /\ UNCHANGED <<docCollections, docVariables, requests, emitted,
                   uiDispatched, downloads, conv, tree>>

\* ui.tsx 128-130, main.ts 16-19 and 38-41: the click emits
\* EXPORT_COLLECTIONS, the handler calls exportCollections, which runs to its
\* first await
ClickExport ==
    /\ Len(requests) < MaxRequests
    /\ requests' = Append(requests,
           [pc |-> "awaitCollections", selectedCollections |-> uiSelected,
            selectedCollectionsData |-> <<>>, allVariables |-> <<>>])
    /\ UNCHANGED <<docCollections, docVariables, uiSelected, emitted,
                   uiDispatched, downloads, conv, tree>>

\* main.ts 41-52: getLocalVariableCollectionsAsync resolves; the call filters
\* the collections and runs to its second await
CollectionsResolved(i) ==
    /\ requests[i].pc = "awaitCollections"
    /\ requests' = [requests EXCEPT
           ![i].pc = "awaitVariables",
           ![i].selectedCollectionsData =
               SelectSeq(docCollections,
                         LAMBDA c : c.id \in requests[i].selectedCollections)]
    /\ UNCHANGED <<docCollections, docVariables, uiSelected, emitted,
                   uiDispatched, downloads, conv, tree>>

\* main.ts 41: getLocalVariableCollectionsAsync rejects, outside the try: the
\* promise of exportCollections rejects, and the handler of line 18 drops it
CollectionsRejected(i) ==
    /\ requests[i].pc = "awaitCollections"
    /\ requests' = [requests EXCEPT ![i].pc = "rejected"]
    /\ UNCHANGED <<docCollections, docVariables, uiSelected, emitted,
                   uiDispatched, downloads, conv, tree>>

\* main.ts 52-132 with the selected collections kept in a variable all calls
\* share: the call emits the collections of the latest request
VariablesResolved_Shared(i) ==
    /\ requests[i].pc = "awaitVariables"
    /\ requests' = [requests EXCEPT ![i].pc = "done",
                                    ![i].allVariables = docVariables]
    /\ emitted' = Append(emitted,
           [name |-> "DOWNLOAD_FILES",
            payload |-> DownloadFilesPayload(
                            requests[Len(requests)].selectedCollectionsData,
                            docVariables),
            request |-> i])
    /\ UNCHANGED <<docCollections, docVariables, uiSelected, uiDispatched,
                   downloads, conv, tree>>

\* main.ts 52-132: getLocalVariablesAsync resolves; the call builds the
\* combined collection and emits DOWNLOAD_FILES
VariablesResolved(i) ==
    /\ requests[i].pc = "awaitVariables"
    /\ requests' = [requests EXCEPT ![i].pc = "done",
                                    ![i].allVariables = docVariables]
    /\ emitted' = Append(emitted,
           [name |-> "DOWNLOAD_FILES",
            payload |-> DownloadFilesPayload(requests[i].selectedCollectionsData,
                                             docVariables),
            request |-> i])
    /\ UNCHANGED <<docCollections, docVariables, uiSelected, uiDispatched,
                   downloads, conv, tree>>

\* main.ts 52, 133-135: getLocalVariablesAsync rejects inside the try; the
\* catch logs the error
VariablesRejected(i) ==
    /\ requests[i].pc = "awaitVariables"
    /\ requests' = [requests EXCEPT ![i].pc = "caught"]
    /\ UNCHANGED <<docCollections, docVariables, uiSelected, emitted,
                   uiDispatched, downloads, conv, tree>>

\* The user deletes a collection, and with it its variables, from the
\* document while the plugin is open
DocDeleteCollection(collectionId) ==
    /\ \E i \in 1..Len(docCollections) : docCollections[i].id = collectionId
    /\ docCollections' = SelectSeq(docCollections, LAMBDA c : c.id # collectionId)
    /\ docVariables' = SelectSeq(docVariables,
                                 LAMBDA v : v.variableCollectionId # collectionId)
    /\ UNCHANGED <<uiSelected, requests, emitted, uiDispatched, downloads, conv, tree>>

\* ui.tsx 61-89: the UI receives the next event main emitted and calls the
\* handlers registered for its name; handleDownloadZip triggers a download
UiDispatch ==
    /\ uiDispatched < Len(emitted)
    /\ uiDispatched' = uiDispatched + 1
    /\ downloads' = IF emitted[uiDispatched + 1].name \in UiHandlers
                    THEN Append(downloads, emitted[uiDispatched + 1].payload)
                    ELSE downloads
    /\ UNCHANGED <<docCollections, docVariables, uiSelected, requests,
                   emitted, conv, tree>>

Next ==
    \/ \E id \in {UiCollections[i].id : i \in 1..Len(UiCollections)} :
           HandleCollectionToggle(id)
    \/ ClickExport
    \/ \E i \in 1..Len(requests) : CollectionsResolved(i)
    \/ \E i \in 1..Len(requests) : CollectionsRejected(i)
    \/ \E i \in 1..Len(requests) : VariablesResolved(i)
    \/ \E i \in 1..Len(requests) : VariablesRejected(i)
    \/ \E id \in {UiCollections[i].id : i \in 1..Len(UiCollections)} :
           DocDeleteCollection(id)
    \/ UiDispatch

Spec == Init /\ [][Next]_vars

-----------------------------------------------------------------------------
(* One call of convertVariableToDTCGToken (src/src/main.ts 188-192), on     *)
(* every variable of the pools below                                        *)

ColorRaws ==
    {RGBA(One, One, One, One), RGBA(Zero, Zero, Zero, One),
     RGBA(One, Zero, Zero, <<9985, 10000>>), RGBA(One, Zero, Zero, <<998, 1000>>),
     RGBA(<<1, 2>>, <<1, 5>>, Zero, <<149, 10000>>), RGB(One, Zero, Zero)}
AliasRaws == {Alias(Id_white), Alias(Id_brand), Alias(Id_missing)}
NumRaws == {Num(8), Num(16)}
TextRaws == {Text(<<"8">>), Text(<<"I","n","t","e","r">>)}
BoolRaws == {Bool(TRUE), Bool(FALSE)}

RawsOf(resolvedType) ==
    AliasRaws \cup (CASE resolvedType = "COLOR" -> ColorRaws
                      [] resolvedType = "FLOAT" -> NumRaws
                      [] resolvedType = "STRING" -> TextRaws
                      [] resolvedType = "BOOLEAN" -> BoolRaws)

ScopesOf(resolvedType) ==
    IF resolvedType = "FLOAT" THEN {{}, {"ALL_SCOPES"}} ELSE {{}}

DescriptionsOf(resolvedType) ==
    IF resolvedType = "BOOLEAN" THEN {<<>>, <<"O","n"," ","o","r"," ","o","f","f">>} ELSE {<<>>}

ModeIds(collection) == {collection.modes[i].modeId : i \in 1..Len(collection.modes)}

\* the variables of a collection: any resolved type, a value of that type or
\* an alias in any subset of the collection's modes
VariablesOfType(collection, ty) ==
    {Variable(<<"V","a","r","i","a","b","l","e","I","D",":","5",":","5">>, <<"t","o","k","e","n","/","u","n","d","e","r",".","t","e","s","t">>, collection.id, ty,
              values, description, scopes) :
         values \in UNION {[D -> RawsOf(ty)] : D \in SUBSET ModeIds(collection)},
         description \in DescriptionsOf(ty),
         scopes \in ScopesOf(ty)}

VariablesOf(collection) ==
    UNION {VariablesOfType(collection, ty) :
               ty \in {"COLOR", "FLOAT", "STRING", "BOOLEAN"}}

ConvInit ==
    /\ docCollections = <<>>
    /\ docVariables = <<>>
    /\ uiSelected = {}
    /\ requests = <<>>
    /\ emitted = <<>>
    /\ uiDispatched = 0
    /\ downloads = <<>>
    /\ tree = TreeIdle
    /\ \E collection \in {WebSemantics, Spacing, NightFirst, Contrast, Dusk} :
         \E variable \in VariablesOf(collection) :
           conv = [called |-> FALSE, variable |-> variable,
                   collection |-> collection,
                   allVariables |-> <<TargetWhite, TargetBrand, variable>>,
                   modeValues |-> EmptyObj, token |-> EmptyObj]

\* main.ts 188-192, 214-292
ConvertVariable ==
    /\ ~conv.called
    /\ conv' = [conv EXCEPT
           !.called = TRUE,
           !.modeValues = ModeValues(conv.variable, conv.collection,
                                     conv.allVariables),
           !.token = convertVariableToDTCGToken(conv.variable, conv.collection,
                                                conv.allVariables)]
    /\ UNCHANGED <<docCollections, docVariables, uiSelected, requests, emitted,
                   uiDispatched, downloads, tree>>

ConvNext == ConvertVariable

SpecConvert == ConvInit /\ [][ConvNext]_vars

\* The event loop runs every settled promise's continuation and delivers every
\* message posted to the UI
LiveSpec ==
    /\ Spec
    /\ WF_vars(UiDispatch)
    /\ \A i \in 1..MaxRequests :
           /\ WF_vars(/\ i <= Len(requests)
                      /\ CollectionsResolved(i) \/ CollectionsRejected(i))
           /\ WF_vars(/\ i <= Len(requests)
                      /\ VariablesResolved(i) \/ VariablesRejected(i))

-----------------------------------------------------------------------------
(* Properties of an export                                                  *)

\* the events emitted by request i
RequestEvents(i) == {j \in 1..Len(emitted) : emitted[j].request = i}

\* the key k occurs somewhere in the JSON value
RECURSIVE ContainsKey(_, _)
ContainsKey(value, k) ==
    /\ IsObj(value)
    /\ \E i \in 1..Len(value.o) :
           value.o[i][1] = k \/ ContainsKey(value.o[i][2], k)

\* the values the leaves of a JSON value carry: under $value, or per mode
\* under $modes
RECURSIVE LeafValues(_)
LeafValues(value) ==
    IF ~IsObj(value) THEN {}
    ELSE UNION {IF value.o[i][1] = K_value THEN {value.o[i][2]}
                ELSE IF value.o[i][1] = K_modes /\ IsObj(value.o[i][2])
                THEN {value.o[i][2].o[n][2] : n \in 1..Len(value.o[i][2].o)}
                     \cup LeafValues(value.o[i][2])
                ELSE LeafValues(value.o[i][2])
                : i \in 1..Len(value.o)}

\* C1: an export request whose selection is empty, or matches no collection
\* of the document, emits no event: every emitted event belongs to a request
\* that selected at least one existing collection.
C1_EmptySelectionEmitsNothing ==
    \A j \in 1..Len(emitted) :
        requests[emitted[j].request].selectedCollectionsData # <<>>

\* C2: no emitted document holds a $modes key or another per-mode
\* bookkeeping key ($fallback), at document level or on a leaf.
C2_NoModesKeyInOutput ==
    \A j \in 1..Len(emitted) :
        \A f \in 1..Len(emitted[j].payload) :
            /\ ~ContainsKey(emitted[j].payload[f].content, K_modes)
            /\ ~ContainsKey(emitted[j].payload[f].content, K_fallback)

\* C3: every request with at least one selected collection that completes
\* emits exactly one event, the UI has a handler for it, and eventually the
\* event has been delivered and its payload handed to the download.
C3_ExportReachesDownload ==
    \A i \in 1..MaxRequests :
        (/\ i <= Len(requests)
         /\ requests[i].pc = "done"
         /\ requests[i].selectedCollectionsData # <<>>)
        ~> (/\ Cardinality(RequestEvents(i)) = 1
            /\ \A j \in RequestEvents(i) :
                   /\ emitted[j].name \in UiHandlers
                   /\ j <= uiDispatched
                   /\ \E d \in 1..Len(downloads) :
                          downloads[d] = emitted[j].payload)

\* runs of the character c collapsed to one
RECURSIVE CollapseRuns(_, _)
CollapseRuns(s, c) ==
    IF Len(s) < 2 THEN s
    ELSE IF s[1] = c /\ s[2] = c THEN CollapseRuns(Tail(s), c)
    ELSE <<s[1]>> \o CollapseRuns(Tail(s), c)

\* the slug of a collection name: lower case, every run of other characters
\* than letters and digits a hyphen ("Web Semantics" gives "web-semantics")
Slugify(name) ==
    CollapseRuns([i \in 1..Len(name) |->
                      IF IsAlnum(name[i]) THEN LowerChar(name[i]) ELSE "-"], "-")

\* the file names the filename policy gives a collection
PolicyFilenames(collection) ==
    IF Len(collection.modes) = 1
    THEN {<<"t","o","k","e","n","s",".">> \o Slugify(collection.name) \o <<".","j","s","o","n">>}
    ELSE {<<"t","o","k","e","n","s",".">> \o Slugify(collection.name) \o <<".">>
              \o ToLowerCase(collection.modes[m].name) \o <<".","j","s","o","n">>
          : m \in 1..Len(collection.modes)}

\* C4: the files of an export are, for every selected collection, one file
\* tokens.<slug>.json when it has one mode and one file
\* tokens.<slug>.<mode>.json per mode when it has several, and no other file.
C4_FilesFollowModeCount ==
    \A j \in 1..Len(emitted) :
        LET data == requests[emitted[j].request].selectedCollectionsData
            files == emitted[j].payload
            policy == UNION {PolicyFilenames(data[c]) : c \in 1..Len(data)}
        IN  data # <<>> =>
                /\ {files[f].filename : f \in 1..Len(files)} = policy
                /\ Len(files) = Cardinality(policy)

\* the variables of request i's selected collections that hold, in some mode,
\* an alias whose target is not among the variables fetched
DanglingAliases(i) ==
    {<<v, m>> \in (1..Len(requests[i].allVariables)) \X {"1:0", "1:1", "2:0"} :
        /\ \E c \in 1..Len(requests[i].selectedCollectionsData) :
               /\ requests[i].selectedCollectionsData[c].id
                      = requests[i].allVariables[v].variableCollectionId
               /\ m \in ModeIds(requests[i].selectedCollectionsData[c])
        /\ HasValue(requests[i].allVariables[v], m)
        /\ requests[i].allVariables[v].valuesByMode[m].k = "alias"
        /\ FindVariable(requests[i].allVariables,
                        requests[i].allVariables[v].valuesByMode[m].id) = 0}

\* C7: an export whose variables resolve completes with exactly one emitted
\* event, and every alias of a selected collection whose target is absent
\* appears in the emitted document as the leaf value {<id>}, the id verbatim.
C7_DanglingAliasKeepsId ==
    \A i \in 1..Len(requests) :
        requests[i].pc = "done" =>
            /\ Cardinality(RequestEvents(i)) = 1
            /\ \A j \in RequestEvents(i) :
                   \A d \in DanglingAliases(i) :
                       Str(<<"{">>
                           \o requests[i].allVariables[d[1]].valuesByMode[d[2]].id
                           \o <<"}">>)
                           \in LeafValues(emitted[j].payload[1].content)

\* C7's case: a completed export of a collection holding a dangling alias
C7_Witness ==
    \E i \in 1..Len(requests) :
        /\ requests[i].pc = "done"
        /\ DanglingAliases(i) # {}
        /\ RequestEvents(i) # {}

-----------------------------------------------------------------------------
(* Properties of one converted variable                                     *)

\* the modes of the converted variable's collection in which it has a value
ValuedModes ==
    {i \in 1..Len(conv.collection.modes) :
         HasValue(conv.variable, conv.collection.modes[i].modeId)}

\* the raw value of the converted variable in the i-th mode
RawIn(i) == conv.variable.valuesByMode[conv.collection.modes[i].modeId]

\* the converted values the modes that have a value produce
ProducedValues ==
    {getVariableValueForMode(conv.variable, RawIn(i), conv.allVariables) :
         i \in ValuedModes}

\* C5: the leaf built for a variable holds $modes if and only if at least
\* two modes produced distinct converted values; when every mode that has a
\* value produced the same one, the leaf holds that value as its $value and
\* no $modes; a leaf never holds both.
C5_CollapsingLaw ==
    conv.called =>
        /\ HasKey(conv.token, K_modes) <=> Cardinality(ProducedValues) >= 2
        /\ Cardinality(ProducedValues) = 1 =>
               /\ HasKey(conv.token, K_value)
               /\ \A v \in ProducedValues : GetKey(conv.token, K_value) = Str(v)
        /\ ~(HasKey(conv.token, K_value) /\ HasKey(conv.token, K_modes))

\* C5's case: two modes hold different raw values whose converted values
\* are the same, and the leaf holds the single value
C5_Witness ==
    /\ conv.called
    /\ \E i, j \in ValuedModes : RawIn(i) # RawIn(j)
    /\ Cardinality(ProducedValues) = 1
    /\ HasKey(conv.token, K_value)
    /\ ~HasKey(conv.token, K_modes)

\* leading and trailing spaces removed
RECURSIVE Trim(_)
Trim(s) ==
    IF Len(s) = 0 THEN s
    ELSE IF s[1] = " " THEN Trim(Tail(s))
    ELSE IF s[Len(s)] = " " THEN Trim(SubSeq(s, 1, Len(s) - 1))
    ELSE s

\* a path segment trimmed, lower-cased, every character outside
\* [A-Za-z0-9_-] an underscore, repeated underscores collapsed
NormalizeSegment(segment) ==
    CollapseRuns([i \in 1..Len(Trim(segment)) |->
                      IF IsAlnum(Trim(segment)[i]) \/ Trim(segment)[i] \in {"_", "-"}
                      THEN LowerChar(Trim(segment)[i])
                      ELSE "_"], "_")

\* a name split on "/" and ".", its segments normalized and joined with "."
NormalizePath(name) ==
    JoinWith([i \in 1..Len(SplitOn(ReplaceSlashByDot(name), ".")) |->
                  NormalizeSegment(SplitOn(ReplaceSlashByDot(name), ".")[i])],
             <<".">>)

\* C6: in every mode where the variable's raw value is an alias whose target
\* is among the variables supplied, the converted value is the target's
\* normalized path between braces.
C6_AliasIsNormalizedPath ==
    conv.called =>
        \A i \in ValuedModes :
            (/\ RawIn(i).k = "alias"
             /\ FindVariable(conv.allVariables, RawIn(i).id) # 0) =>
                GetKey(conv.modeValues, conv.collection.modes[i].name)
                    = Str(<<"{">>
                          \o NormalizePath(
                                 conv.allVariables[
                                     FindVariable(conv.allVariables,
                                                  RawIn(i).id)].name)
                          \o <<"}">>)

\* the string s ends with "px"
EndsWithPx(s) == Len(s) >= 2 /\ s[Len(s) - 1] = "p" /\ s[Len(s)] = "x"

\* C8: the token of a FLOAT variable without scopes has $type "number", no
\* value of it in any mode ends with "px", and a raw number is not emitted
\* as a string.
C8_FloatWithoutScopesIsNumber ==
    (conv.called /\ conv.variable.resolvedType = "FLOAT"
                 /\ conv.variable.scopes = {}) =>
        /\ GetKey(conv.token, K_type) = Str(<<"n","u","m","b","e","r">>)
        /\ \A v \in LeafValues(Obj(<< <<K_name, conv.token>> >>)) :
               ~(IsStr(v) /\ EndsWithPx(v.s))
        /\ \A i \in ValuedModes :
               RawIn(i).k = "num" =>
                   ~IsStr(GetKey(conv.modeValues, conv.collection.modes[i].name))

\* C9: the token of a FLOAT variable with at least one scope has $type
\* "dimension", and in every mode whose raw value is a number n the converted
\* value is the string of n followed by "px".
C9_FloatWithScopesIsPx ==
    (conv.called /\ conv.variable.resolvedType = "FLOAT"
                 /\ conv.variable.scopes # {}) =>
        \A i \in ValuedModes :
            RawIn(i).k = "num" =>
                /\ GetKey(conv.token, K_type) = Str(S_dimension)
                /\ GetKey(conv.modeValues, conv.collection.modes[i].name)
                       = Str(NatToString(RawIn(i).n, 10) \o <<"p", "x">>)

\* b is the integer nearest to 255 * x, a half rounded up
IsNearestByte(b, x) ==
    /\ 2 * x[2] * b - x[2] <= 2 * 255 * x[1]
    /\ 2 * 255 * x[1] < 2 * x[2] * b + x[2]

NearestByte(x) == CHOOSE b \in 0..255 : IsNearestByte(b, x)

\* the alpha of a raw colour, 1 when it has none
AlphaOf(raw) == IF raw.k = "rgba" THEN raw.a ELSE One

HexByte(b) == <<DigitChars[(b \div 16) + 1], DigitChars[(b % 16) + 1]>>

\* the hundredths q written with two decimals
TwoDecimals(q) ==
    NatToString(q \div 100, 10) \o <<".">>
        \o <<DigitChars[((q \div 10) % 10) + 1], DigitChars[(q % 10) + 1]>>

HexString(raw) ==
    <<"#">> \o HexByte(NearestByte(raw.r)) \o HexByte(NearestByte(raw.g))
            \o HexByte(NearestByte(raw.b))

RgbaString(raw, q) ==
    S_rgbaOpen \o NatToString(NearestByte(raw.r), 10) \o S_commaSpace
        \o NatToString(NearestByte(raw.g), 10) \o S_commaSpace
        \o NatToString(NearestByte(raw.b), 10) \o S_commaSpace
        \o TwoDecimals(q) \o <<")">>

\* the modes in which the converted variable is a COLOR with a raw colour
ColorModes ==
    {i \in ValuedModes : /\ conv.variable.resolvedType = "COLOR"
                         /\ RawIn(i).k \in {"rgba", "rgb"}}

\* C10 as stated: the converted value of a raw colour is #rrggbb exactly
\* when alpha >= 0.999, and otherwise rgba(r, g, b, a) with a the alpha
\* itself rounded to two decimals.
C10_HexFromAlpha999 ==
    conv.called =>
        \A i \in ColorModes :
            GetKey(conv.modeValues, conv.collection.modes[i].name)
                = Str(IF 1000 * AlphaOf(RawIn(i))[1] >= 999 * AlphaOf(RawIn(i))[2]
                      THEN HexString(RawIn(i))
                      ELSE RgbaString(RawIn(i),
                               CHOOSE q \in 0..100 :
                                   /\ 2 * AlphaOf(RawIn(i))[2] * q - AlphaOf(RawIn(i))[2]
                                          <= 200 * AlphaOf(RawIn(i))[1]
                                   /\ 200 * AlphaOf(RawIn(i))[1]
                                          < 2 * AlphaOf(RawIn(i))[2] * q
                                                + AlphaOf(RawIn(i))[2]))

\* C10, amended: the converted value of a raw colour is #rrggbb exactly when
\* alpha * 255 rounds to 255, that is alpha >= 254.5/255, and otherwise
\* rgba(r, g, b, a) with a the quotient round(alpha * 255) / 255 rounded to
\* two decimals.
C10_HexFromAlphaByte ==
    conv.called =>
        \A i \in ColorModes :
            GetKey(conv.modeValues, conv.collection.modes[i].name)
                = Str(IF 510 * AlphaOf(RawIn(i))[1] >= 509 * AlphaOf(RawIn(i))[2]
                      THEN HexString(RawIn(i))
                      ELSE RgbaString(RawIn(i),
                               CHOOSE q \in 0..100 :
                                   /\ 510 * q - 255
                                          <= 200 * NearestByte(AlphaOf(RawIn(i)))
                                   /\ 200 * NearestByte(AlphaOf(RawIn(i)))
                                          < 510 * q + 255))

\* C10's case: an alpha of 0.9985, between 0.998 and 0.999, converted to hex
C10_Witness ==
    /\ conv.called
    /\ \E i \in ColorModes :
           /\ AlphaOf(RawIn(i)) = <<9985, 10000>>
           /\ GetKey(conv.modeValues, conv.collection.modes[i].name)
                  = Str(<<"#", "f", "f", "0", "0", "0", "0">>)

-----------------------------------------------------------------------------
(* Failures of the data source                                              *)

\* a fetch of request i failed: the listing of the collections ("rejected")
\* or the listing of the variables ("caught")
FetchFailed(i) == requests[i].pc \in {"rejected", "caught"}

\* the promise exportCollections returned for request i is rejected: the
\* failure has reached the caller of exportCollections
FailurePropagated(i) == requests[i].pc = "rejected"

\* C11: when a fetch of an export request fails, the failure reaches the
\* caller of the export and the request emits nothing.
C11_FetchFailurePropagates ==
    \A i \in 1..Len(requests) :
        FetchFailed(i) => FailurePropagated(i) /\ RequestEvents(i) = {}

-----------------------------------------------------------------------------
(* One build of the combined tokens (src/src/main.ts 55-80): the trees of   *)
(* the selected collections, keyed and regrouped                            *)

\* two more collections: one whose name gives the key of "Web Semantics",
\* one whose name gives the key "colors"
WebSemanticsCopy ==
    [id |-> "c4", name |-> <<"w","e","b","-","s","e","m","a","n","t","i","c","s">>,
     modes |-> <<Mode("4:0", <<"M","o","d","e"," ","1">>)>>]
Colors ==
    [id |-> "c5", name |-> <<"C","o","l","o","r","s">>,
     modes |-> <<Mode("5:0", <<"M","o","d","e"," ","1">>)>>]

TreeCollections == <<WebSemantics, WebSemanticsCopy, Spacing, Colors>>

\* variables of "Spacing" whose names share segments
DotA == Variable(<<"V","a","r","i","a","b","l","e","I","D",":","2",":","3">>, <<"a">>, "c2", "FLOAT",
                 ("2:0" :> Num(1)), <<>>, {})
DotAB == Variable(<<"V","a","r","i","a","b","l","e","I","D",":","2",":","4">>, <<"a", ".", "b">>, "c2", "FLOAT",
                  ("2:0" :> Num(2)), <<>>, {})
DotAC == Variable(<<"V","a","r","i","a","b","l","e","I","D",":","2",":","5">>, <<"a", ".", "c">>, "c2", "FLOAT",
                  ("2:0" :> Num(3)), <<>>, {})

\* a colour of "Web Semantics" whose name is a prefix of Surface's
Bg == Variable(<<"V","a","r","i","a","b","l","e","I","D",":","1",":","5">>, <<"c","o","l","o","r","/","b","g">>, "c1", "COLOR",
               ("1:0" :> RGBA(One, Zero, Zero, One)), <<>>, {"ALL_FILLS"})

\* variables of "web-semantics" and of "Colors"
SpaceMd == Variable(<<"V","a","r","i","a","b","l","e","I","D",":","4",":","1">>, <<"s","p","a","c","e","/","m","d">>, "c4", "FLOAT",
                    ("4:0" :> Num(12)), <<>>, {})
Radius == Variable(<<"V","a","r","i","a","b","l","e","I","D",":","5",":","1">>, <<"r","a","d","i","u","s">>, "c5", "FLOAT",
                   ("5:0" :> Num(4)), <<>>, {})

\* a variable of "web-semantics" without a value in any mode
Ghosts ==
    {Variable(<<"V","a","r","i","a","b","l","e","I","D",":","4",":","2">>, <<"s","p","a","c","e","/","g","h","o","s","t">>, "c4", ty,
              << >>, description, {}) :
         ty \in {"COLOR", "STRING"},
         description \in {<<>>, <<"u","n","u","s","e","d">>}}

\* the sequences of distinct elements of a set
RECURSIVE Arrangements(_)
Arrangements(S) ==
    {<<>>} \cup UNION {{<<x>> \o r : r \in Arrangements(S \ {x})} : x \in S}

TreeInit ==
    /\ docCollections = <<>>
    /\ docVariables = <<>>
    /\ uiSelected = {}
    /\ requests = <<>>
    /\ emitted = <<>>
    /\ uiDispatched = 0
    /\ downloads = <<>>
    /\ conv = ConvIdle
    /\ \E collections \in SubSequences(TreeCollections),
          web \in {<<Surface, Link>>, <<Surface, Bg>>, <<Bg, Surface>>},
          ghost \in Ghosts,
          spacing \in Arrangements({DotA, DotAB, DotAC}) :
         \E copy \in {<<SpaceMd, ghost>>, <<ghost, SpaceMd>>} :
           tree = [called |-> FALSE, collections |-> collections,
                   allVariables |-> web \o copy \o spacing \o <<Radius>>,
                   trees |-> <<>>, combined |-> EmptyObj]

\* main.ts 55-80: every selected collection converted, its tokens stored
\* under its key, the whole regrouped
BuildTokens ==
    /\ ~tree.called
    /\ tree' = [tree EXCEPT
           !.called = TRUE,
           !.trees = [k \in 1..Len(tree.collections) |->
                         GetKey(convertCollectionToDTCG(tree.collections[k],
                                                        tree.allVariables),
                                K_tokens)],
           !.combined = groupAllColorsAtRoot(
                            CombinedTokensUpTo(tree.collections,
                                               tree.allVariables,
                                               Len(tree.collections)))]
    /\ UNCHANGED <<docCollections, docVariables, uiSelected, requests, emitted,
                   uiDispatched, downloads, conv>>

TreeNext == BuildTokens

SpecTree == TreeInit /\ [][TreeNext]_vars

-----------------------------------------------------------------------------
(* Properties of the built trees                                            *)

\* the node at a path below a node: <<node>>, or <<>> when there is none
RECURSIVE NodeAt(_, _)
NodeAt(node, path) ==
    IF Len(path) = 0 THEN <<node>>
    ELSE IF IsObj(node) /\ HasKey(node, path[1])
    THEN NodeAt(GetKey(node, path[1]), Tail(path))
    ELSE <<>>

IsPrefix(p, q) == Len(p) <= Len(q) /\ SubSeq(q, 1, Len(p)) = p

\* the variables of the k-th selected collection, in the order of the build
TreeVariables(k) == CollectionVariables(tree.collections[k], tree.allVariables)

\* the path of a variable in its collection's tree
DotPath(variable) == SplitOn(variable.name, ".")

\* the normalized paths of the collection's variables are pairwise distinct
\* and none is a prefix of another
PathsIndependent(k) ==
    \A i, j \in 1..Len(TreeVariables(k)) :
        i # j => ~IsPrefix(SplitOn(NormalizePath(TreeVariables(k)[i].name), "."),
                           SplitOn(NormalizePath(TreeVariables(k)[j].name), "."))

\* C12: in the tree of a collection whose variables have independent paths,
\* every variable's leaf token is at the variable's path: a group a later
\* path walks through keeps the children it had.
C12_TreeKeepsGroups ==
    tree.called =>
        \A k \in 1..Len(tree.collections) :
            PathsIndependent(k) =>
                \A i \in 1..Len(TreeVariables(k)) :
                    NodeAt(tree.trees[k], DotPath(TreeVariables(k)[i]))
                        = <<convertVariableToDTCGToken(TreeVariables(k)[i],
                                                       tree.collections[k],
                                                       tree.allVariables)>>

\* a key of the format itself ($type, $value, $modes, ...)
IsMetaKey(key) == Len(key) > 0 /\ key[1] = "$"

\* the node, or a node below it, carries a value and child nodes at once
RECURSIVE HasLeafGroup(_)
HasLeafGroup(node) ==
    /\ IsObj(node)
    /\ \/ /\ HasKey(node, K_value) \/ HasKey(node, K_modes)
          /\ \E i \in 1..Len(node.o) :
                 ~IsMetaKey(node.o[i][1]) /\ IsObj(node.o[i][2])
       \/ \E i \in 1..Len(node.o) :
              ~IsMetaKey(node.o[i][1]) /\ HasLeafGroup(node.o[i][2])

\* C13: no node of a collection's tree, nor of the combined tree, is at once
\* a leaf token and a group: a leaf on the way of a later path is replaced
\* by an empty group.
C13_NoLeafIsGroup ==
    tree.called =>
        /\ \A k \in 1..Len(tree.collections) : ~HasLeafGroup(tree.trees[k])
        /\ ~HasLeafGroup(tree.combined)

-----------------------------------------------------------------------------
(* Fallback between modes                                                   *)

\* the modes of the converted variable's collection named "light"
LightModes ==
    {i \in 1..Len(conv.collection.modes) :
         conv.collection.modes[i].name = S_light}

\* the collection's $modes object declares the fallback "light" for a mode
DeclaresFallback(modeName) ==
    /\ HasKey(CollectionModes(conv.collection), modeName)
    /\ HasKey(GetKey(CollectionModes(conv.collection), modeName), K_fallback)

\* C14: a mode in which the variable has no value takes the value of the
\* mode named "light" when the collection has one (and the variable a value
\* in it), whatever the name of the mode; without a mode named "light" it
\* takes none; and a mode takes a fallback value exactly when the
\* collection's $modes declares a fallback for it.
C14_FallbackToLight ==
    conv.called =>
        \A i \in (1..Len(conv.collection.modes)) \ ValuedModes :
            /\ IF LightModes \cap ValuedModes # {}
               THEN /\ HasKey(conv.modeValues, conv.collection.modes[i].name)
                    /\ \A l \in LightModes \cap ValuedModes :
                           GetKey(conv.modeValues, conv.collection.modes[i].name)
                               = Str(getVariableValueForMode(
                                         conv.variable, RawIn(l),
                                         conv.allVariables))
               ELSE ~HasKey(conv.modeValues, conv.collection.modes[i].name)
            /\ HasKey(conv.modeValues, conv.collection.modes[i].name)
                   <=> /\ DeclaresFallback(conv.collection.modes[i].name)
                       /\ LightModes \cap ValuedModes # {}

-----------------------------------------------------------------------------
(* Tokens of a tree                                                         *)

\* the node has child nodes
HasChildren(node) ==
    \E i \in 1..Len(node.o) : ~IsMetaKey(node.o[i][1]) /\ IsObj(node.o[i][2])

\* the node is a token: it carries a value, or a type and no child
IsToken(node) ==
    /\ IsObj(node)
    /\ \/ HasKey(node, K_value)
       \/ HasKey(node, K_modes)
       \/ HasKey(node, K_type) /\ ~HasChildren(node)

\* the fields of a token other than its $type
TokenFields(node) ==
    Obj(SelectSeq(node.o, LAMBDA e : IsMetaKey(e[1]) /\ e[1] # K_type))

\* the segments of a name, split on "/" and on "."
Segments(name) == SplitOn(ReplaceSlashByDot(name), ".")

\* the tokens at and below a node, each with the segments of its path
RECURSIVE PathTokens(_, _)
PathTokens(node, path) ==
    IF ~IsObj(node) THEN {}
    ELSE (IF IsToken(node) THEN {<<path, TokenFields(node)>>} ELSE {})
         \cup UNION {IF IsMetaKey(node.o[i][1]) THEN {}
                     ELSE PathTokens(node.o[i][2],
                                     path \o Segments(node.o[i][1]))
                     : i \in 1..Len(node.o)}

\* the tokens the combined tree holds for the k-th selected collection:
\* under the collection's key, and under that key in the group "colors"
CombinedTokensOf(k) ==
    LET key == CollectionKey(tree.collections[k].name)
    IN  (IF HasKey(tree.combined, key)
         THEN PathTokens(GetKey(tree.combined, key), <<>>) ELSE {})
        \cup (IF /\ HasKey(tree.combined, S_colors)
                 /\ HasKey(GetKey(tree.combined, S_colors), key)
              THEN PathTokens(GetKey(GetKey(tree.combined, S_colors), key), <<>>)
              ELSE {})

\* the variables of the k-th selected collection without a value in any mode
Valueless(k) ==
    {i \in 1..Len(TreeVariables(k)) :
         DOMAIN TreeVariables(k)[i].valuesByMode = {}}

\* the leaf of a variable without a value: its type, and its description
TypedOnly(variable) ==
    IF variable.description # <<>>
    THEN Obj(<< <<K_type, Str(getDTCGTypeFromVariableType(variable.resolvedType))>>,
                <<K_description, Str(variable.description)>> >>)
    ELSE Obj(<< <<K_type, Str(getDTCGTypeFromVariableType(variable.resolvedType))>> >>)

\* C15: in the build of a collection holding a variable without a value in
\* any mode, that variable's leaf carries its type, and its description if
\* it has one, and neither $value nor $modes; the other variables of the
\* collection have their converted token in the tree; and the combined tree
\* holds all of them under the collection.
C15_ValuelessVariableIsTyped ==
    tree.called =>
        \A k \in 1..Len(tree.collections) :
            \A i \in 1..Len(TreeVariables(k)) :
                Valueless(k) # {} =>
                    /\ NodeAt(tree.trees[k], DotPath(TreeVariables(k)[i]))
                           = <<IF i \in Valueless(k)
                               THEN TypedOnly(TreeVariables(k)[i])
                               ELSE convertVariableToDTCGToken(
                                        TreeVariables(k)[i], tree.collections[k],
                                        tree.allVariables)>>
                    /\ i \notin Valueless(k) =>
                           \E n \in SeqRange(NodeAt(tree.trees[k],
                                                    DotPath(TreeVariables(k)[i]))) :
                               HasKey(n, K_value) \/ HasKey(n, K_modes)
                    /\ \E t \in CombinedTokensOf(k) :
                           /\ t[1] = Segments(TreeVariables(k)[i].name)
                           /\ i \in Valueless(k) =>
                                  t[2] = TokenFields(TypedOnly(TreeVariables(k)[i]))
                           /\ i \notin Valueless(k) =>
                                  t[2] = TokenFields(convertVariableToDTCGToken(
                                             TreeVariables(k)[i],
                                             tree.collections[k],
                                             tree.allVariables))

\* C15's case: a build of a selection holding a variable without a value
C15_Witness ==
    /\ tree.called
    /\ \E k \in 1..Len(tree.collections) :
           /\ Valueless(k) # {}
           /\ \E i \in Valueless(k) : TreeVariables(k)[i].description # <<>>
           /\ Len(TreeVariables(k)) > 1

\* C17: every token of every selected collection's tree is in the combined
\* tree under that collection, at the same path, with the same fields.
C17_NoTokenLost ==
    tree.called =>
        \A k \in 1..Len(tree.collections) :
            PathTokens(tree.trees[k], <<>>) \subseteq CombinedTokensOf(k)

-----------------------------------------------------------------------------
(* Export requests in flight together                                       *)

\* the keys of the collections request i selected and fetched
SelectedKeys(i) ==
    {CollectionKey(requests[i].selectedCollectionsData[c].name) :
         c \in 1..Len(requests[i].selectedCollectionsData)}

\* the keys under which a combined document holds tokens of collections
DocumentKeys(content) ==
    LET tokens == GetKey(content, K_tokens)
    IN  ({tokens.o[n][1] : n \in 1..Len(tokens.o)} \ {S_colors})
        \cup (IF HasKey(tokens, S_colors) /\ IsObj(GetKey(tokens, S_colors))
              THEN {k \in SeqRange(ObjectKeys(GetKey(tokens, S_colors))) :
                        ~IsMetaKey(k)}
              ELSE {})

\* C16: whatever the interleaving of the export requests, a request that
\* completes emits exactly one event of its own; the document of that event
\* is the one built from the collections and the variables this request
\* fetched, names exactly the collections it selected, and holds tokens
\* under the keys of those collections only.
C16_RequestsAreIndependent ==
    \A i \in 1..Len(requests) :
        requests[i].pc = "done" =>
            /\ Cardinality(RequestEvents(i)) = 1
            /\ \A c \in 1..Len(requests[i].selectedCollectionsData) :
                   requests[i].selectedCollectionsData[c].id
                       \in requests[i].selectedCollections
            /\ \A j \in RequestEvents(i) :
                   /\ emitted[j].payload
                          = DownloadFilesPayload(requests[i].selectedCollectionsData,
                                                 requests[i].allVariables)
                   /\ GetKey(emitted[j].payload[1].content, K_description)
                          = Str(S_combinedDescription
                                \o CollectionNames(
                                       requests[i].selectedCollectionsData))
                   /\ DocumentKeys(emitted[j].payload[1].content)
                          \subseteq SelectedKeys(i)

\* C16's case: the second request completed while the first was in flight,
\* the two having selected different collections
C16_Witness ==
    /\ Len(requests) = 2
    /\ Len(emitted) = 2
    /\ emitted[1].request = 2
    /\ emitted[2].request = 1
    /\ requests[1].selectedCollectionsData # <<>>
    /\ requests[2].selectedCollectionsData # <<>>
    /\ SelectedKeys(1) \cap SelectedKeys(2) = {}

=============================================================================
